---- MODULE Spec2Model ----
(***************************************************************************)
(* CineMatch (src/app.py): a Streamlit script that resolves a typed movie  *)
(* title against the catalog with difflib.get_close_matches, ranks the     *)
(* matched movie's row of the similarity matrix and renders one card per   *)
(* recommended movie, asking the TMDB provider for a poster and details.   *)
(*                                                                         *)
(* Strings are sequences of character codes.  A similarity ratio is kept   *)
(* as the exact fraction <<2*M, T>>; for the short strings used here the   *)
(* float comparisons of difflib agree with the comparisons of the          *)
(* fractions.  Titles and queries are shorter than 200 characters, the     *)
(* length from which difflib's autojunk heuristic starts to act.           *)
(***************************************************************************)
EXTENDS Integers, Sequences, FiniteSets

Min(x, y) == IF x <= y THEN x ELSE y

(* Python's str comparison: lexicographic by code point, a proper prefix   *)
(* is smaller.                                                             *)
RECURSIVE StrLess(_, _)
StrLess(x, y) ==
    IF y = <<>> THEN FALSE
    ELSE IF x = <<>> THEN TRUE
    ELSE IF Head(x) # Head(y) THEN Head(x) < Head(y)
    ELSE StrLess(Tail(x), Tail(y))

(* ---------------- difflib.SequenceMatcher(None, a, b) ------------------ *)

(* Length of the common run of a and b that starts at a[i], b[j] and stays *)
(* inside a[alo..ahi-1], b[blo..bhi-1] (1-based, half open).               *)
RECURSIVE RunLen(_, _, _, _, _, _)
RunLen(a, b, i, j, ahi, bhi) ==
    IF i < ahi /\ j < bhi /\ a[i] = b[j]
    THEN 1 + RunLen(a, b, i + 1, j + 1, ahi, bhi)
    ELSE 0

(* SequenceMatcher.find_longest_match: the longest matching block inside   *)
(* the window; of the longest, the one that starts earliest in a, and of   *)
(* those the one that starts earliest in b.  <<alo, blo, 0>> if none.      *)
find_longest_match(a, b, alo, ahi, blo, bhi) ==
    LET runs  == {<<p, q, RunLen(a, b, p, q, ahi, bhi)>> :
                     p \in alo .. ahi - 1, q \in blo .. bhi - 1}
        found == {t \in runs : t[3] > 0}
    IN  IF found = {} THEN <<alo, blo, 0>>
        ELSE CHOOSE t \in found :
                 \A u \in found :
                     \/ t[3] > u[3]
                     \/ (t[3] = u[3] /\ t[1] < u[1])
                     \/ (t[3] = u[3] /\ t[1] = u[1] /\ t[2] <= u[2])

(* SequenceMatcher.get_matching_blocks: the windows left and right of the  *)
(* block m found in window w = <<alo, ahi, blo, bhi>>, when the block is   *)
(* not empty and the window has room on that side.                         *)
LeftWindow(w, m) ==
    IF m[3] > 0 /\ w[1] < m[1] /\ w[3] < m[2]
    THEN <<(<<w[1], m[1], w[3], m[2]>>)>> ELSE <<>>

RightWindow(w, m) ==
    IF m[3] > 0 /\ m[1] + m[3] < w[2] /\ m[2] + m[3] < w[4]
    THEN <<(<<m[1] + m[3], w[2], m[2] + m[3], w[4]>>)>> ELSE <<>>

(* SequenceMatcher.get_matching_blocks, summed: a queue of windows; the    *)
(* block found in the first window is counted and the windows beside it    *)
(* are queued.                                                             *)
RECURSIVE Matches(_, _, _, _)
MatchesAfter(a, b, queue, total, w, m) ==
    Matches(a, b, Tail(queue) \o LeftWindow(w, m) \o RightWindow(w, m), total + m[3])

Matches(a, b, queue, total) ==
    IF queue = <<>> THEN total
    ELSE MatchesAfter(a, b, queue, total, Head(queue),
                      find_longest_match(a, b, Head(queue)[1], Head(queue)[2],
                                         Head(queue)[3], Head(queue)[4]))

(* A ratio that leaves out the factor 2.                                   *)
calculate_ratio_single(matches, length) ==
    IF length = 0 THEN <<1, 1>> ELSE <<matches, length>>

(* difflib._calculate_ratio: 2.0 * matches / length, 1.0 for length 0.     *)
calculate_ratio(matches, length) ==
    IF length = 0 THEN <<1, 1>> ELSE <<2 * matches, length>>

(* SequenceMatcher.ratio                                                   *)
ratio(a, b) ==
    calculate_ratio(Matches(a, b, <<(<<1, Len(a) + 1, 1, Len(b) + 1>>)>>, 0),
                    Len(a) + Len(b))

Count(x, c) == Cardinality({p \in 1 .. Len(x) : x[p] = c})

(* SequenceMatcher.quick_ratio: the size of the multiset intersection.     *)
RECURSIVE SumMin(_, _, _)
SumMin(a, b, chars) ==
    IF chars = {} THEN 0
    ELSE LET c == CHOOSE c \in chars : TRUE
         IN  Min(Count(a, c), Count(b, c)) + SumMin(a, b, chars \ {c})

quick_ratio(a, b) ==
    calculate_ratio(SumMin(a, b, {b[p] : p \in 1 .. Len(b)}), Len(a) + Len(b))

(* SequenceMatcher.real_quick_ratio                                        *)
real_quick_ratio(a, b) ==
    calculate_ratio(Min(Len(a), Len(b)), Len(a) + Len(b))

(* Comparisons of ratios (denominators are positive).                      *)
RatioGE(r, q) == r[1] * q[2] >= q[1] * r[2]

RatioEq(r, q) == r[1] * q[2] = q[1] * r[2]

RatioGT(r, q) == r[1] * q[2] > q[1] * r[2]

(* ---------------- difflib.get_close_matches ---------------------------- *)

(* sorted(seq, reverse=True): descending, elements that compare equal keep *)
(* their order in seq (Python's sort is stable, also under reverse=True).  *)
(* greater[<<p, q>>] tells whether seq[p] is greater than seq[q].          *)
StableSortDesc(seq, greater) ==
    LET n       == Len(seq)
        rank(p) == Cardinality({q \in 1 .. n :
                       \/ greater[<<q, p>>]
                       \/ (~greater[<<p, q>>] /\ q < p)})
    IN  [k \in 1 .. n |-> seq[CHOOSE p \in 1 .. n : rank(p) = k - 1]]

(* The positions of seq, in pairs.                                         *)
Pairs(seq) == (1 .. Len(seq)) \X (1 .. Len(seq))

(* Python's comparison of the (score, x) tuples get_close_matches builds.  *)
TupleGreater(t, u) ==
    \/ RatioGT(t[1], u[1])
    \/ (RatioEq(t[1], u[1]) /\ StrLess(u[2], t[2]))

(* A ranking of the (score, x) tuples that keeps candidate order among     *)
(* equal scores.                                                           *)
nlargest_by_score(n, result) ==
    LET s == StableSortDesc(result,
                 [pq \in Pairs(result) |-> RatioGT(result[pq[1]][1], result[pq[2]][1])])
    IN  SubSeq(s, 1, Min(n, Len(s)))

(* A ranking that returns the n smallest tuples.                           *)
nsmallest(n, result) ==
    LET s == StableSortDesc(result,
                 [pq \in Pairs(result) |-> TupleGreater(result[pq[2]], result[pq[1]])])
    IN  SubSeq(s, 1, Min(n, Len(s)))

(* heapq.nlargest(n, result) with no key: sorted(result, reverse=True)[:n] *)
(* on the (score, x) tuples themselves.                                    *)
nlargest(n, result) ==
    LET s == StableSortDesc(result,
                 [pq \in Pairs(result) |-> TupleGreater(result[pq[1]], result[pq[2]])])
    IN  SubSeq(s, 1, Min(n, Len(s)))

(* difflib.get_close_matches(word, possibilities, n, cutoff): seq1 is the  *)
(* candidate x, seq2 the word; x is kept when the three ratios reach the   *)
(* cutoff; the n best (score, x) tuples are returned, best first.          *)
get_close_matches(word, possibilities, n, cutoff) ==
    LET Keep(x) == /\ RatioGE(real_quick_ratio(x, word), cutoff)
                   /\ RatioGE(quick_ratio(x, word), cutoff)
                   /\ RatioGE(ratio(x, word), cutoff)
        kept    == SelectSeq(possibilities, Keep)
        result  == [p \in 1 .. Len(kept) |-> <<ratio(kept[p], word), kept[p]>>]
        best    == nlargest(n, result)
    IN  [p \in 1 .. Len(best) |-> best[p][2]]

(* cutoff=0.6 of the primary match, cutoff=0.3 of the suggestions.         *)
PrimaryCutoff == <<6, 10>>

SuggestCutoff == <<3, 10>>

(* ---------------- the loaded model and the sessions -------------------- *)

VARIABLES
    movies_data,          \* the catalog: rows with an 'index' column and a title
    similarity,           \* the similarity matrix, rows and columns 0 .. N-1
    TMDB_API_KEY,         \* TRUE when st.secrets holds a key
    sessions,             \* the browser sessions the server runs the script for
    pc,                   \* where each session's script run stands
    movie_to_search,      \* the query of the run
    num_recommendations,  \* the selected result count of the run
    find_close_match,     \* result of the primary get_close_matches
    index_of_the_movie,   \* <<>> or <<value of the 'index' column>>
    row_read,             \* <<>> or <<row of similarity the run read>>
    recommendations,      \* sorted_similar_movies[1:num_recommendations+1]
    i,                    \* cards fully rendered by the loop
    outcome,              \* how the run ended
    suggestions,          \* result of the second get_close_matches
    offered               \* titles named in the "Did you mean" message

vars == <<movies_data, similarity, TMDB_API_KEY, sessions, pc, movie_to_search,
          num_recommendations, find_close_match, index_of_the_movie, row_read,
          recommendations, i, outcome, suggestions, offered>>

loaded == <<movies_data, similarity, TMDB_API_KEY, sessions>>

N == Len(movies_data)

(* options=[5, 10, 15, 20, 30] of the "Results" selectbox.                 *)
Options == {5, 10, 15, 20, 30}

(* movies_data['title'].tolist()                                           *)
list_of_all_titles == [p \in 1 .. N |-> movies_data[p].title]

(* movies_data[movies_data.title == close_match]['index'].values[0]: the   *)
(* 'index' column of the first row that carries the title.                 *)
IndexOfTitle(close_match) ==
    LET rows  == {p \in 1 .. N : movies_data[p].title = close_match}
        first == CHOOSE p \in rows : \A q \in rows : p <= q
    IN  movies_data[first].index

(* similarity[index]: numpy accepts -N .. N-1, a negative index counting   *)
(* from the end, and raises IndexError for anything else.  The row number  *)
(* read, or <<>> for IndexError.                                           *)
RowOf(index) ==
    IF 0 <= index /\ index < N THEN <<index>>
    ELSE IF -N <= index /\ index < 0 THEN <<N + index>>
    ELSE <<>>

(* list(enumerate(similarity[row])): pairs <<position, score>>.            *)
similarity_score(row) == [p \in 1 .. N |-> <<p - 1, similarity[row][p - 1]>>]

(* A sort by score that puts the lowest score first.                       *)
sorted_ascending(scores) ==
    StableSortDesc(scores, [pq \in Pairs(scores) |-> scores[pq[1]][2] < scores[pq[2]][2]])

(* sorted(similarity_score, key=lambda x: x[1], reverse=True)              *)
sorted_similar_movies(scores) ==
    StableSortDesc(scores, [pq \in Pairs(scores) |-> scores[pq[1]][2] > scores[pq[2]][2]])

(* A slice that keeps the first entry: sorted[0:num].                      *)
slice_from_first(sorted, num) == SubSeq(sorted, 1, Min(num, Len(sorted)))

(* sorted_similar_movies[1:num_recommendations+1]                          *)
recommended_slice(sorted, num) == SubSeq(sorted, 2, Min(num + 1, Len(sorted)))

(* ---------------- the TMDB provider ------------------------------------ *)

(* What a search request can come to: an exception of requests (network    *)
(* error, timeout, HTTP error status), a body without 'results', an empty  *)
(* result list, or a first result whose fields are each a value, absent,   *)
(* or JSON null.                                                           *)
FieldStates == {"value", "absent", "null"}

Failures == {[kind |-> "exception"], [kind |-> "no_results_key"], [kind |-> "empty"]}

(* The responses to get_movie_poster's request, by the field it reads.     *)
PosterResponses ==
    Failures \cup {[kind |-> "movie", poster_path |-> f] : f \in FieldStates}

(* The responses to get_movie_details' request, by the fields the card     *)
(* uses.                                                                   *)
DetailsResponses ==
    Failures \cup {[kind |-> "movie", vote_average |-> v, overview |-> o]
                      : v \in FieldStates, o \in FieldStates}

(* dict.get(key, default): the default only when the key is absent; a key  *)
(* present with null gives None.                                           *)
DictGet(field, default) ==
    IF field = "absent" THEN default
    ELSE IF field = "null" THEN "None" ELSE "value"

(* get_movie_poster: always a URL.                                         *)
get_movie_poster(resp) ==
    IF ~TMDB_API_KEY THEN "placeholder:No+API+Key"
    ELSE IF resp.kind \in {"exception", "no_results_key"} THEN "placeholder:Error+Loading"
    ELSE IF resp.kind = "empty" THEN "placeholder:No+Poster+Available"
    ELSE IF DictGet(resp.poster_path, "None") = "None"
         THEN "placeholder:No+Poster+Available"
         ELSE "poster"

(* get_movie_details: None, or the record built with dict.get defaults.    *)
get_movie_details(resp) ==
    IF ~TMDB_API_KEY THEN [none |-> TRUE]
    ELSE IF resp.kind \in {"exception", "no_results_key", "empty"} THEN [none |-> TRUE]
    ELSE [none     |-> FALSE,
          rating   |-> DictGet(resp.vote_average, "N/A"),
          overview |-> DictGet(resp.overview, "No overview available")]

(* The card of one recommendation (lines 333-390): with details present    *)
(* the expander evaluates extra_details['overview'][:200], which raises    *)
(* TypeError when overview is None.                                        *)
CardRaises(extra_details) ==
    ~extra_details.none /\ extra_details.overview = "None"

(* A message that names every suggestion.                                  *)
all_suggestions(sugg) == sugg

(* suggestions[:3] of the "Did you mean" message (an empty list shows no   *)
(* message).                                                               *)
suggestions_shown(sugg) == SubSeq(sugg, 1, Min(3, Len(sugg)))

(* ---------------- one script run per session --------------------------- *)

Cleared(s) ==
    /\ find_close_match' = [find_close_match EXCEPT ![s] = <<>>]
    /\ index_of_the_movie' = [index_of_the_movie EXCEPT ![s] = <<>>]
    /\ row_read' = [row_read EXCEPT ![s] = <<>>]
    /\ recommendations' = [recommendations EXCEPT ![s] = <<>>]
    /\ i' = [i EXCEPT ![s] = 0]
    /\ suggestions' = [suggestions EXCEPT ![s] = <<>>]
    /\ offered' = [offered EXCEPT ![s] = <<>>]

(* Lines 302-311: the button starts a run with the typed text and the      *)
(* selected count.  An empty text ends in the warning of line 399;         *)
(* otherwise the primary match decides between the two branches.           *)
Search(s, text, num) ==
    /\ pc[s] = "idle"
    /\ movie_to_search' = [movie_to_search EXCEPT ![s] = text]
    /\ num_recommendations' = [num_recommendations EXCEPT ![s] = num]
    /\ IF text = <<>>
       THEN /\ pc' = [pc EXCEPT ![s] = "done"]
            /\ outcome' = [outcome EXCEPT ![s] = "warning"]
            /\ UNCHANGED find_close_match
       ELSE LET m == get_close_matches(text, list_of_all_titles, 1, PrimaryCutoff)
            IN  /\ find_close_match' = [find_close_match EXCEPT ![s] = m]
                /\ pc' = [pc EXCEPT ![s] = IF m # <<>> THEN "matched" ELSE "notfound"]
                /\ UNCHANGED outcome
    /\ UNCHANGED <<loaded, index_of_the_movie, row_read, recommendations, i,
                   suggestions, offered>>

(* A ranking that sorts the row of the matrix in place.                    *)
RankInPlace(s) ==
    /\ pc[s] = "matched"
    /\ LET index == IndexOfTitle(find_close_match[s][1])
           row   == RowOf(index)
       IN  /\ index_of_the_movie' = [index_of_the_movie EXCEPT ![s] = <<index>>]
           /\ row_read' = [row_read EXCEPT ![s] = row]
           /\ IF row = <<>>
              THEN /\ pc' = [pc EXCEPT ![s] = "done"]
                   /\ outcome' = [outcome EXCEPT ![s] = "IndexError"]
                   /\ UNCHANGED <<recommendations, similarity>>
              ELSE LET sorted == sorted_similar_movies(similarity_score(row[1]))
                   IN  /\ recommendations' = [recommendations EXCEPT ![s] =
                              recommended_slice(sorted, num_recommendations[s])]
                       /\ similarity' = [similarity EXCEPT ![row[1]] =
                              [j \in 0 .. N - 1 |-> sorted[j + 1][2]]]
                       /\ pc' = [pc EXCEPT ![s] = "render"]
                       /\ UNCHANGED outcome
    /\ UNCHANGED <<movies_data, TMDB_API_KEY, sessions, movie_to_search,
                   num_recommendations, find_close_match, i, suggestions, offered>>

(* Lines 311-329: the matched title's index, its row of the matrix, the    *)
(* sort and the slice the loop will walk.  An index numpy rejects ends the *)
(* run with IndexError.                                                    *)
Rank(s) ==
    /\ pc[s] = "matched"
    /\ LET index == IndexOfTitle(find_close_match[s][1])
           row   == RowOf(index)
       IN  /\ index_of_the_movie' = [index_of_the_movie EXCEPT ![s] = <<index>>]
           /\ row_read' = [row_read EXCEPT ![s] = row]
           /\ IF row = <<>>
              THEN /\ pc' = [pc EXCEPT ![s] = "done"]
                   /\ outcome' = [outcome EXCEPT ![s] = "IndexError"]
                   /\ UNCHANGED recommendations
              ELSE /\ recommendations' = [recommendations EXCEPT ![s] =
                          recommended_slice(
                              sorted_similar_movies(similarity_score(row[1])),
                              num_recommendations[s])]
                   /\ pc' = [pc EXCEPT ![s] = "render"]
                   /\ UNCHANGED outcome
    /\ UNCHANGED <<loaded, movie_to_search, num_recommendations, find_close_match,
                   i, suggestions, offered>>

(* Lines 329-390, one pass of the loop: the poster and the details of the  *)
(* title are fetched and the card is drawn.  An exception inside the card  *)
(* ends the run; the remaining cards are not drawn.                        *)
RenderCard(s, poster_resp, details_resp) ==
    /\ pc[s] = "render"
    /\ i[s] < Len(recommendations[s])
    /\ LET poster_url    == get_movie_poster(poster_resp)
           extra_details == get_movie_details(details_resp)
       IN  IF CardRaises(extra_details)
           THEN /\ pc' = [pc EXCEPT ![s] = "done"]
                /\ outcome' = [outcome EXCEPT ![s] = "TypeError"]
                /\ UNCHANGED i
           ELSE /\ poster_url \in {"poster", "placeholder:No+API+Key",
                                   "placeholder:Error+Loading",
                                   "placeholder:No+Poster+Available"}
                /\ i' = [i EXCEPT ![s] = i[s] + 1]
                /\ UNCHANGED <<pc, outcome>>
    /\ UNCHANGED <<loaded, movie_to_search, num_recommendations, find_close_match,
                   index_of_the_movie, row_read, recommendations, suggestions, offered>>

(* The loop is exhausted: the run ends normally.                           *)
FinishRender(s) ==
    /\ pc[s] = "render"
    /\ i[s] = Len(recommendations[s])
    /\ pc' = [pc EXCEPT ![s] = "done"]
    /\ outcome' = [outcome EXCEPT ![s] = "ok"]
    /\ UNCHANGED <<loaded, movie_to_search, num_recommendations, find_close_match,
                   index_of_the_movie, row_read, recommendations, i, suggestions,
                   offered>>

(* Lines 391-397: "Movie not found", then the suggestions at cutoff 0.3.   *)
Suggest(s) ==
    /\ pc[s] = "notfound"
    /\ LET sugg == get_close_matches(movie_to_search[s], list_of_all_titles, 5,
                                     SuggestCutoff)
       IN  /\ suggestions' = [suggestions EXCEPT ![s] = sugg]
           /\ offered' = [offered EXCEPT ![s] = suggestions_shown(sugg)]
    /\ pc' = [pc EXCEPT ![s] = "done"]
    /\ outcome' = [outcome EXCEPT ![s] = "not_found"]
    /\ UNCHANGED <<loaded, movie_to_search, num_recommendations, find_close_match,
                   index_of_the_movie, row_read, recommendations, i>>

(* The next interaction reruns the script from the top: the page of the    *)
(* finished run is dropped.                                                *)
Rerun(s) ==
    /\ pc[s] = "done"
    /\ pc' = [pc EXCEPT ![s] = "idle"]
    /\ outcome' = [outcome EXCEPT ![s] = "none"]
    /\ movie_to_search' = [movie_to_search EXCEPT ![s] = <<>>]
    /\ num_recommendations' = [num_recommendations EXCEPT ![s] = 10]
    /\ Cleared(s)
    /\ UNCHANGED loaded

(* ---------------- the inputs ------------------------------------------- *)

MaxN == 7

MaxCatalog == 4

MaxIndexedN == 3

Scores == {0, 1}

(* Titles "a", "b", "aa", "ba" and the texts typed: "", "ab", "aa", "b",   *)
(* "c".                                                                    *)
Titles == <<(<<1>>), (<<2>>), (<<1, 1>>), (<<2, 1>>)>>

Queries == {<<>>, <<1, 2>>, <<1, 1>>, <<2>>, <<3>>}

(* A catalog of n rows whose 'index' column is the row number.             *)
Catalog(n) == [p \in 1 .. n |-> [index |-> p - 1,
                                 title |-> Titles[((p - 1) % Len(Titles)) + 1]]]

IdleSessions(S) ==
    /\ sessions = S
    /\ pc = [s \in S |-> "idle"]
    /\ movie_to_search = [s \in S |-> <<>>]
    /\ num_recommendations = [s \in S |-> 10]
    /\ find_close_match = [s \in S |-> <<>>]
    /\ index_of_the_movie = [s \in S |-> <<>>]
    /\ row_read = [s \in S |-> <<>>]
    /\ recommendations = [s \in S |-> <<>>]
    /\ i = [s \in S |-> 0]
    /\ outcome = [s \in S |-> "none"]
    /\ suggestions = [s \in S |-> <<>>]
    /\ offered = [s \in S |-> <<>>]

(* Every symmetric matrix sim[a][b] = r[(a+b) % n] over the scores: each   *)
(* row takes every pattern of scores, the diagonal entry need not be the   *)
(* largest of its row.                                                     *)
Init ==
    /\ \E n \in 1 .. MaxN :
         /\ movies_data = Catalog(n)
         /\ \E r \in [0 .. n - 1 -> Scores] :
              similarity = [a \in 0 .. n - 1 |-> [b \in 0 .. n - 1 |-> r[(a + b) % n]]]
    /\ TMDB_API_KEY \in BOOLEAN
    /\ IdleSessions({1})

SearchStep == \E s \in sessions, text \in Queries, num \in Options : Search(s, text, num)

RankStep == \E s \in sessions : Rank(s)

RenderCardStep ==
    \E s \in sessions, p \in PosterResponses, d \in DetailsResponses : RenderCard(s, p, d)

FinishRenderStep == \E s \in sessions : FinishRender(s)

SuggestStep == \E s \in sessions : Suggest(s)

RerunStep == \E s \in sessions : Rerun(s)

Next ==
    \/ SearchStep
    \/ RankStep
    \/ RenderCardStep
    \/ FinishRenderStep
    \/ SuggestStep
    \/ RerunStep

Spec == Init /\ [][Next]_vars

(* A matrix whose rows differ: 1 on the diagonal, 0 elsewhere.             *)
Identity(n) == [a \in 0 .. n - 1 |-> [b \in 0 .. n - 1 |-> IF a = b THEN 1 ELSE 0]]

TitleSet == {Titles[k] : k \in 1 .. Len(Titles)}

(* Every catalog of up to MaxCatalog rows over the titles, repeated titles *)
(* included, with the API key configured.                                  *)
InitMatch ==
    /\ \E n \in 1 .. MaxCatalog :
         /\ \E ts \in [1 .. n -> TitleSet] :
              movies_data = [p \in 1 .. n |-> [index |-> p - 1, title |-> ts[p]]]
         /\ similarity = Identity(n)
    /\ TMDB_API_KEY = TRUE
    /\ IdleSessions({1})

SpecMatch == InitMatch /\ [][Next]_vars

(* Catalogs whose 'index' column was not checked against the matrix: any   *)
(* value from -(n+1) to n.                                                 *)
InitIndexed ==
    /\ \E n \in 1 .. MaxIndexedN :
         /\ \E ix \in [1 .. n -> -(n + 1) .. n] :
              movies_data = [p \in 1 .. n |-> [index |-> ix[p], title |-> Catalog(n)[p].title]]
         /\ similarity = Identity(n)
    /\ TMDB_API_KEY \in BOOLEAN
    /\ IdleSessions({1})

SpecIndexed == InitIndexed /\ [][Next]_vars

(* Two sessions served at once from the one loaded model.                  *)
InitShared ==
    /\ \E n \in 1 .. 2 :
         /\ movies_data = Catalog(n)
         /\ similarity = Identity(n)
    /\ TMDB_API_KEY \in BOOLEAN
    /\ IdleSessions({1, 2})

SpecShared == InitShared /\ [][Next]_vars

(* ---------------- properties ------------------------------------------- *)

(* The run of session s has read a row of the matrix and holds its ranking. *)
Ranked(s) == row_read[s] # <<>>

(* The run of session s has a query and is past the primary match.         *)
Resolved(s) == pc[s] # "idle" /\ movie_to_search[s] # <<>>

(* The ratio of every catalog title, by row, for the query of session s.   *)
TitleRatios(s) == [p \in 1 .. N |-> ratio(movies_data[p].title, movie_to_search[s])]

(* Rows whose ratio in rt reaches the cutoff.                              *)
Reaching(rt, cutoff) == {p \in 1 .. N : RatioGE(rt[p], cutoff)}

(* C1: the recommendations ranked for item i never contain i itself,       *)
(* whatever the scores of the row are.                                     *)
C1_SelfExcluded ==
    \A s \in sessions :
        Ranked(s) =>
            \A p \in 1 .. Len(recommendations[s]) :
                recommendations[s][p][1] # index_of_the_movie[s][1]

(* C2: for a valid item index and any offered count, the ranking holds     *)
(* exactly min(count, N-1) recommendations.                                *)
C2_Count ==
    \A s \in sessions :
        Ranked(s) =>
            Len(recommendations[s]) = Min(num_recommendations[s], N - 1)

C2_Witness ==
    \E s \in sessions :
        /\ Ranked(s)
        /\ num_recommendations[s] < N - 1
        /\ Len(recommendations[s]) = num_recommendations[s]

(* C3: the recommendations carry the scores of the row read, in descending *)
(* order of score, equal scores in ascending order of index.               *)
C3_SortedStable ==
    \A s \in sessions :
        Ranked(s) =>
            /\ \A p \in 1 .. Len(recommendations[s]) :
                   recommendations[s][p][2]
                       = similarity[row_read[s][1]][recommendations[s][p][1]]
            /\ \A p \in 1 .. Len(recommendations[s]) - 1 :
                   LET x == recommendations[s][p]
                       y == recommendations[s][p + 1]
                   IN  x[2] > y[2] \/ (x[2] = y[2] /\ x[1] < y[1])

C3_Witness ==
    \E s \in sessions :
        /\ Ranked(s)
        /\ \E p, q \in 1 .. Len(recommendations[s]) - 1 :
               /\ recommendations[s][p][2] = recommendations[s][p + 1][2]
               /\ recommendations[s][q][2] > recommendations[s][q + 1][2]

(* The primary match of session s has just returned.                      *)
JustMatched(s) == pc[s] \in {"matched", "notfound"}

(* C4: the primary match returns exactly one title when some catalog title *)
(* reaches ratio 0.6 for the query and the empty list otherwise; the title *)
(* returned is a catalog title of maximal ratio.                           *)
C4_PrimaryMatch ==
    \A s \in sessions :
        JustMatched(s) =>
            LET rt == TitleRatios(s)
            IN  IF Reaching(rt, PrimaryCutoff) = {}
                THEN find_close_match[s] = <<>>
                ELSE /\ Len(find_close_match[s]) = 1
                     /\ \E p \in 1 .. N :
                            /\ movies_data[p].title = find_close_match[s][1]
                            /\ \A r \in 1 .. N : RatioGE(rt[p], rt[r])

C4_Witness ==
    \E s \in sessions :
        /\ pc[s] = "matched"
        /\ LET rt == TitleRatios(s)
           IN  /\ \E p, r \in Reaching(rt, PrimaryCutoff) :
                      /\ RatioGT(rt[p], rt[r])
                      /\ movies_data[p].title = find_close_match[s][1]
               /\ Reaching(rt, PrimaryCutoff) # 1 .. N

(* The rows reaching the cutoff, best ratio first, rows of equal ratio in  *)
(* catalog order, cut to n titles.                                         *)
InCatalogOrder(s, n, cutoff) ==
    LET rt   == TitleRatios(s)
        rows == SelectSeq([p \in 1 .. N |-> p], LAMBDA p : p \in Reaching(rt, cutoff))
        best == StableSortDesc(rows,
                    [pq \in Pairs(rows) |-> RatioGT(rt[rows[pq[1]]], rt[rows[pq[2]]])])
    IN  [k \in 1 .. Min(n, Len(best)) |-> movies_data[best[k]].title]

(* C5 as stated: titles of equal ratio are ranked in catalog order, in the *)
(* primary match and in the suggestions.                                   *)
C5_TiesInCatalogOrder ==
    \A s \in sessions :
        /\ JustMatched(s) => find_close_match[s] = InCatalogOrder(s, 1, PrimaryCutoff)
        /\ outcome[s] = "not_found" => suggestions[s] = InCatalogOrder(s, 5, SuggestCutoff)

(* C5 as amended: titles of equal ratio are ranked by the titles           *)
(* themselves, the greater string first: the primary match is the greatest *)
(* title among those of maximal ratio, and suggestions of equal ratio      *)
(* stand in descending order of title.                                     *)
C5_TiesByTitle ==
    \A s \in sessions :
        /\ pc[s] = "matched" =>
               LET rt == TitleRatios(s)
                   m  == find_close_match[s][1]
                   rm == ratio(m, movie_to_search[s])
               IN  \A p \in Reaching(rt, PrimaryCutoff) :
                       \/ RatioGT(rm, rt[p])
                       \/ (RatioEq(rm, rt[p]) /\ ~StrLess(m, movies_data[p].title))
        /\ outcome[s] = "not_found" =>
               \A k \in 1 .. Len(suggestions[s]) - 1 :
                   LET x == suggestions[s][k]
                       y == suggestions[s][k + 1]
                       rx == ratio(x, movie_to_search[s])
                       ry == ratio(y, movie_to_search[s])
                   IN  RatioGT(rx, ry) \/ (RatioEq(rx, ry) /\ ~StrLess(x, y))

C5_Witness ==
    \E s \in sessions :
        /\ pc[s] = "matched"
        /\ LET rt == TitleRatios(s)
           IN  \E p, r \in Reaching(rt, PrimaryCutoff) :
                   /\ p < r
                   /\ RatioEq(rt[p], rt[r])
                   /\ movies_data[p].title # movies_data[r].title
                   /\ movies_data[r].title = find_close_match[s][1]
                   /\ \A u \in 1 .. N : RatioGE(rt[p], rt[u])

Cutoffs == {<<0, 1>>, SuggestCutoff, PrimaryCutoff, <<1, 1>>}

(* C6: a query equal to a catalog title is matched to that very title, at  *)
(* any cutoff from 0 to 1 it is ranked first, and the row then read        *)
(* belongs to an item carrying the title.                                  *)
C6_ExactMatch ==
    \A s \in sessions :
        (Resolved(s) /\ \E p \in 1 .. N : movies_data[p].title = movie_to_search[s]) =>
            /\ find_close_match[s] = <<movie_to_search[s]>>
            /\ pc[s] = "matched" =>
                   \A c \in Cutoffs :
                       LET m == get_close_matches(movie_to_search[s],
                                                  list_of_all_titles, 5, c)
                       IN  m # <<>> /\ m[1] = movie_to_search[s]
            /\ Ranked(s) => movies_data[row_read[s][1] + 1].title = movie_to_search[s]

C6_Witness ==
    \E s \in sessions :
        /\ pc[s] = "render"
        /\ Ranked(s)
        /\ \E p \in 1 .. N : movies_data[p].title = movie_to_search[s]
        /\ \E r \in Reaching(TitleRatios(s), PrimaryCutoff) :
               movies_data[r].title # movie_to_search[s]
        /\ movies_data[1].title # movie_to_search[s]

(* The run of session s is one whose query no catalog title matches at the *)
(* primary cutoff.                                                         *)
Unmatched(s) == Resolved(s) /\ Reaching(TitleRatios(s), PrimaryCutoff) = {}

(* The run of session s goes on with a catalog title that reaches the      *)
(* primary cutoff, so its query is not an unmatched one.                   *)
MatchedTitleReaches(s) ==
    /\ find_close_match[s] # <<>>
    /\ \E p \in 1 .. N : movies_data[p].title = find_close_match[s][1]
    /\ RatioGE(ratio(find_close_match[s][1], movie_to_search[s]), PrimaryCutoff)

(* C7 as stated: only a run with a title reaching 0.6 goes on to rank; an  *)
(* unmatched run ends "not found" without reading a row or ranking, and    *)
(* offers the suggestions found at cutoff 0.3, up to 5.                    *)
C7_SuggestionsOffered ==
    \A s \in sessions :
        /\ pc[s] \in {"matched", "render"} => MatchedTitleReaches(s)
        /\ (pc[s] \in {"notfound", "done"} /\ Unmatched(s)) =>
            /\ index_of_the_movie[s] = <<>> /\ row_read[s] = <<>>
            /\ recommendations[s] = <<>> /\ i[s] = 0
            /\ pc[s] = "done" =>
                   /\ outcome[s] = "not_found"
                   /\ offered[s] = get_close_matches(movie_to_search[s],
                                                     list_of_all_titles, 5, SuggestCutoff)

(* C7 as amended: only a run with a title reaching 0.6 goes on to rank; an *)
(* unmatched run ends "not found" without reading a row or ranking, and    *)
(* offers the first three of the suggestions found at cutoff 0.3 with up   *)
(* to 5 results.                                                           *)
C7_FirstThreeOffered ==
    \A s \in sessions :
        /\ pc[s] \in {"matched", "render"} => MatchedTitleReaches(s)
        /\ (pc[s] \in {"notfound", "done"} /\ Unmatched(s)) =>
            /\ index_of_the_movie[s] = <<>> /\ row_read[s] = <<>>
            /\ recommendations[s] = <<>> /\ i[s] = 0
            /\ pc[s] = "done" =>
                   LET found == get_close_matches(movie_to_search[s],
                                                  list_of_all_titles, 5, SuggestCutoff)
                   IN  /\ outcome[s] = "not_found"
                       /\ suggestions[s] = found
                       /\ Len(offered[s]) = Min(3, Len(found))
                       /\ \A k \in 1 .. Len(offered[s]) : offered[s][k] = found[k]

C7_Witness ==
    \E s \in sessions :
        /\ Unmatched(s)
        /\ outcome[s] = "not_found"
        /\ Len(suggestions[s]) > 3
        /\ Len(offered[s]) = 3

(* C8: whatever the provider answers for each recommended title, a run     *)
(* that ranked ends normally with all min(count, N-1) cards drawn.         *)
C8_NeverAborted ==
    \A s \in sessions :
        (pc[s] = "done" /\ Ranked(s)) =>
            /\ outcome[s] = "ok"
            /\ i[s] = Min(num_recommendations[s], N - 1)

(* C9: a matched item whose index lies outside 0 .. N-1 ends the run with  *)
(* IndexError: no row is read and nothing is recommended.                  *)
C9_OutOfRangeFails ==
    \A s \in sessions :
        (index_of_the_movie[s] # <<>>
           /\ (index_of_the_movie[s][1] < 0 \/ index_of_the_movie[s][1] >= N)) =>
            /\ pc[s] = "done" /\ outcome[s] = "IndexError"
            /\ row_read[s] = <<>>
            /\ recommendations[s] = <<>>

(* C10: no step of any run, whatever the other session is doing, changes   *)
(* the catalog or the similarity matrix.                                   *)
C10_ReadOnly == [][movies_data' = movies_data /\ similarity' = similarity]_vars

C10_Witness ==
    /\ pc[1] = "render" /\ i[1] >= 1
    /\ pc[2] = "done" /\ outcome[2] = "not_found"

====
